---------------------------- MODULE Spec2Model ----------------------------
(***************************************************************************)
(* A model of gpandas: the DataFrame table (dataframe/DataFrame.go), its   *)
(* Rename and Merge operations, the validating constructor and the         *)
(* concurrent CSV reader (gpandas package) and the generic Set             *)
(* (utils/collection/set.go).                                              *)
(*                                                                         *)
(* Conventions.  Go slices are TLA+ sequences, so positions are 1-based:   *)
(* Go index k is position k+1 and the Go sentinel -1 stays -1 (NotFound).  *)
(* A cell (Go `any`) is an integer: Null is the nil interface, 1..99 are   *)
(* integers (the join keys are 1..MaxVal), 100..299 strings, 300..399      *)
(* floats, 400..499 booleans (see TypeOf), and WrapBase+v is the           *)
(* one-element typed slice IntCol{v}/StringCol{v}/... the constructor     *)
(* stores for the scalar v.                                                *)
(***************************************************************************)
EXTENDS Integers, Sequences, FiniteSets, TLC

VARIABLES
    df,       \* the caller's tables: slot -> table (or the nil pointer)
    m,        \* the locals of the Merge call in flight
    ret,      \* what the last call returned
    rn,       \* the Rename calls running concurrently on df1, and df1's mutex
    csv,      \* the Read_csv call in flight: its locals and its workers
    call      \* the arguments of the one call a specification studies

vars == <<df, m, ret, rn, csv, call>>

-----------------------------------------------------------------------------
(* Bounds of the model *)

MaxRows == 2
MaxVal == 1
MaxCtorRows == 1
MaxCtorCols == 3
MaxProcs == 2
MaxCsvRows == 3
MaxCsvCols == 2
MaxCPU == 3
MaxWorkers == 4
\* the element domain of the sets is 1..MaxElem
MaxElem == 3
\* the longest slice given to ToSet and the most values given to AddMulti
MaxSliceLen == 3

-----------------------------------------------------------------------------
(* Cells and tables *)

Null == 0
NotFound == -1
WrapBase == 1000

Slots == {"df1", "df2", "res"}

\* type DataFrame struct { sync.Mutex; Columns []string; Data [][]any }.
\* store[i] names the backing array of Data[i]; isNil marks the nil *DataFrame.
NilDF == [isNil |-> TRUE, Columns |-> <<>>, Data |-> <<>>, store |-> <<>>]

MkDF(cols, data, store) ==
    [isNil |-> FALSE, Columns |-> cols, Data |-> data, store |-> store]

\* A Go slice that is unhashable as a map key and incomparable with ==.
IsWrapped(c) == c >= WrapBase

Range(s) == {s[i] : i \in DOMAIN s}

SeqsUpTo(S, n) == UNION {[1..k -> S] : k \in 0..n}

\* no Rename call is running concurrently; df1's mutex is unlocked
RnIdle == [mu |-> 0, pc |-> <<>>, columns |-> <<>>, err |-> <<>>, todo |-> <<>>,
           start |-> <<>>]

\* no Read_csv call is in flight
CsvIdle == [pc |-> "idle"]

\* the specification studies no single call
NoCall == [op |-> ""]

-----------------------------------------------------------------------------
(* Merge: dataframe/DataFrame.go *)

InnerMerge == "inner"
LeftMerge == "left"
RightMerge == "right"
FullMerge == "full"

\* for i, col := range cols { if col == on { idx = i; break } }
ColIdx(cols, on) ==
    IF \E i \in DOMAIN cols : cols[i] = on
    THEN CHOOSE i \in DOMAIN cols :
             /\ cols[i] = on
             /\ \A j \in DOMAIN cols : cols[j] = on => i <= j
    ELSE NotFound

\* Mutants of MapAppend: the new position put first; the old positions lost.
MapAppendFirst(mp, key, i) ==
    IF key \in DOMAIN mp THEN [mp EXCEPT ![key] = <<i>> \o @]
    ELSE mp @@ (key :> <<i>>)

MapOverwrite(mp, key, i) ==
    IF key \in DOMAIN mp THEN [mp EXCEPT ![key] = <<i>>]
    ELSE mp @@ (key :> <<i>>)

\* df2Map[key] = append(df2Map[key], i)
MapAppend(mp, key, i) ==
    IF key \in DOMAIN mp THEN [mp EXCEPT ![key] = Append(@, i)]
    ELSE mp @@ (key :> <<i>>)

\* df2Map := make(map[any][]int); for i, row := range data { ... }
RECURSIVE BuildMapFrom(_, _, _, _)
BuildMapFrom(data, colIdx, i, mp) ==
    IF i > Len(data) THEN mp
    ELSE BuildMapFrom(data, colIdx, i + 1, MapAppend(mp, data[i][colIdx], i))

BuildMap(data, colIdx) == BuildMapFrom(data, colIdx, 1, <<>>)

\* row[colIdx] is out of range, or the key is a slice: a run-time panic.
KeyPanics(data, colIdx) ==
    \E i \in DOMAIN data :
        \/ colIdx > Len(data[i])
        \/ IsWrapped(data[i][colIdx])

\* resultColumns = append(resultColumns, df.Columns...);
\* for _, col := range other.Columns { if col != on { append } }
KeepColumn(cols, i, on) == cols[i] # on

RECURSIVE FilterColumns(_, _, _)
FilterColumns(cols, i, on) ==
    IF i > Len(cols) THEN <<>>
    ELSE (IF KeepColumn(cols, i, on) THEN <<cols[i]>> ELSE <<>>)
             \o FilterColumns(cols, i + 1, on)

ResultColumns(cols1, cols2, on) == cols1 \o FilterColumns(cols2, 1, on)

\* for j, val := range row2 { if j != df2ColIdx { newRow = append(newRow, val) } }
RECURSIVE RowWithout(_, _, _)
RowWithout(row, skip, j) ==
    IF j > Len(row) THEN <<>>
    ELSE (IF j # skip THEN <<row[j]>> ELSE <<>>) \o RowWithout(row, skip, j + 1)

\* nullRow := make([]any, n)
NullRow(n) == [k \in 1..n |-> Null]

\* Mutant of FreshStore: newRow := row1, appended to in place.
ReusedStore(l, r, k) == IF l # 0 THEN <<"df1", l>> ELSE <<"res", k>>

\* The backing array of output row k, built from input rows l and r (0: none):
\* newRow := make([]any, 0) is a fresh array.
FreshStore(l, r, k) == <<"res", k>>

NewRow(cells, l, r) == [row |-> cells, l |-> l, r |-> r]

\* the rows one left row yields against its matches (inner and left merge)
MatchedRows(df1, df2, c2, i, matches) ==
    [k \in 1..Len(matches) |->
        NewRow(df1.Data[i] \o RowWithout(df2.Data[matches[k]], c2, 1),
               i, matches[k])]

RECURSIVE InnerFrom(_, _, _, _, _, _)
InnerFrom(df1, df2, c1, c2, df2Map, i) ==
    IF i > Len(df1.Data) THEN <<>>
    ELSE LET key == df1.Data[i][c1]
         IN  (IF key \in DOMAIN df2Map
              THEN MatchedRows(df1, df2, c2, i, df2Map[key])
              ELSE <<>>)
             \o InnerFrom(df1, df2, c1, c2, df2Map, i + 1)

performInnerMerge(df1, df2, c1, c2, df2Map) ==
    InnerFrom(df1, df2, c1, c2, df2Map, 1)

RECURSIVE LeftFrom(_, _, _, _, _, _)
LeftFrom(df1, df2, c1, c2, df2Map, i) ==
    IF i > Len(df1.Data) THEN <<>>
    ELSE LET key == df1.Data[i][c1]
             nullRow == NullRow(Len(df2.Columns) - 1)
         IN  (IF key \in DOMAIN df2Map
              THEN MatchedRows(df1, df2, c2, i, df2Map[key])
              ELSE <<NewRow(df1.Data[i] \o nullRow, i, 0)>>)
             \o LeftFrom(df1, df2, c1, c2, df2Map, i + 1)

performLeftMerge(df1, df2, c1, c2, df2Map) ==
    LeftFrom(df1, df2, c1, c2, df2Map, 1)

\* the rows one right row yields against its matches in df1 (right merge)
RightMatchedRows(df1, df2, c2, j, matches) ==
    [k \in 1..Len(matches) |->
        NewRow(df1.Data[matches[k]] \o RowWithout(df2.Data[j], c2, 1),
               matches[k], j)]

\* an unmatched right row: nullRow for every left column, then its own fields
RightOnlyRow(df1, df2, c1, c2, j) ==
    NewRow(NullRow(Len(df1.Columns)) \o RowWithout(df2.Data[j], c2, 1), 0, j)

RECURSIVE RightFrom(_, _, _, _, _, _)
RightFrom(df1, df2, c1, c2, df1Map, j) ==
    IF j > Len(df2.Data) THEN <<>>
    ELSE LET key == df2.Data[j][c2]
         IN  (IF key \in DOMAIN df1Map
              THEN RightMatchedRows(df1, df2, c2, j, df1Map[key])
              ELSE <<RightOnlyRow(df1, df2, c1, c2, j)>>)
             \o RightFrom(df1, df2, c1, c2, df1Map, j + 1)

performRightMerge(df1, df2, c1, c2, df2Map) ==
    RightFrom(df1, df2, c1, c2, BuildMap(df1.Data, c1), 1)

\* Mutant of ProcessedKeys: the loop that records the left keys is missing.
NoProcessedKeys(df1, c1) == {}

\* processedKeys[row[df1ColIdx]] = true for every left row
ProcessedKeys(df1, c1) == {df1.Data[i][c1] : i \in DOMAIN df1.Data}

RECURSIVE RemainingFrom(_, _, _, _, _, _)
RemainingFrom(df1, df2, c1, c2, processedKeys, j) ==
    IF j > Len(df2.Data) THEN <<>>
    ELSE (IF df2.Data[j][c2] \notin processedKeys
          THEN <<RightOnlyRow(df1, df2, c1, c2, j)>>
          ELSE <<>>)
         \o RemainingFrom(df1, df2, c1, c2, processedKeys, j + 1)

performFullMerge(df1, df2, c1, c2, df2Map) ==
    performLeftMerge(df1, df2, c1, c2, df2Map)
        \o RemainingFrom(df1, df2, c1, c2, ProcessedKeys(df1, c1), 1)

\* switch how { case InnerMerge: ... default: error }
MergeKinds == {InnerMerge, LeftMerge, RightMerge, FullMerge}

performMerge(how, df1, df2, c1, c2, df2Map) ==
    CASE how = InnerMerge -> performInnerMerge(df1, df2, c1, c2, df2Map)
      [] how = LeftMerge  -> performLeftMerge(df1, df2, c1, c2, df2Map)
      [] how = RightMerge -> performRightMerge(df1, df2, c1, c2, df2Map)
      [] how = FullMerge  -> performFullMerge(df1, df2, c1, c2, df2Map)

ErrNone == "nil"
ErrNilDF == "both DataFrames must be non-nil"
ErrNoColumn == "column not found in both DataFrames"
ErrMergeType == "invalid merge type"
Panic == "panic"

\* what a call returned: the error (ErrNone for nil) and what the error names
Returned(op, err, detail) == [op |-> op, err |-> err, detail |-> detail]

\* Merge's locals; "stage" is the last statement group the call reached
MIdle ==
    [stage |-> "idle", on |-> "", how |-> "",
     df1ColIdx |-> NotFound, df2ColIdx |-> NotFound, df2Map |-> <<>>,
     resultColumns |-> <<>>, prov |-> <<>>]

\* func (df *DataFrame) Merge(other *DataFrame, on string, how MergeHow):
\* the error, the returned table and the locals as the call returns
MergeRun(df1, df2, on, how) ==
    LET start == [MIdle EXCEPT !.on = on, !.how = how, !.stage = "nil check"]
    IN
    IF df1.isNil \/ df2.isNil
    THEN [err |-> ErrNilDF, out |-> NilDF, m |-> start]
    ELSE
    LET c1 == ColIdx(df1.Columns, on)
        c2 == ColIdx(df2.Columns, on)
        found == [start EXCEPT !.df1ColIdx = c1, !.df2ColIdx = c2,
                               !.stage = "find column"]
    IN
    IF c1 = NotFound \/ c2 = NotFound
    THEN [err |-> ErrNoColumn, out |-> NilDF, m |-> found]
    ELSE IF KeyPanics(df2.Data, c2)
    THEN [err |-> Panic, out |-> NilDF, m |-> [found EXCEPT !.stage = "index"]]
    ELSE
    LET df2Map == BuildMap(df2.Data, c2)
        resultColumns == ResultColumns(df1.Columns, df2.Columns, on)
        built == [found EXCEPT !.df2Map = df2Map,
                               !.resultColumns = resultColumns,
                               !.stage = "switch"]
    IN
    IF how \notin MergeKinds
    THEN [err |-> ErrMergeType, out |-> NilDF, m |-> built]
    ELSE IF KeyPanics(df1.Data, c1)
    THEN [err |-> Panic, out |-> NilDF, m |-> built]
    ELSE
    LET rows == performMerge(how, df1, df2, c1, c2, df2Map)
        n == Len(rows)
    IN  [err |-> ErrNone,
         out |-> MkDF(resultColumns,
                      [k \in 1..n |-> rows[k].row],
                      [k \in 1..n |-> FreshStore(rows[k].l, rows[k].r, k)]),
         m   |-> [built EXCEPT !.stage = "return",
                               !.prov = [k \in 1..n |-> <<rows[k].l, rows[k].r>>]]]

\* res, err := df[a].Merge(df[b], on, how)
Merge(a, b, on, how) ==
    LET run == MergeRun(df[a], df[b], on, how)
    IN  /\ m' = run.m
        /\ ret' = Returned("Merge", run.err, <<on, how>>)
        /\ df' = IF run.err = Panic THEN df ELSE [df EXCEPT !["res"] = run.out]
        /\ UNCHANGED <<call, rn, csv>>

-----------------------------------------------------------------------------
(* Set: utils/collection/set.go.  A Set[T] is a Go map[T]struct{}: a TLA+ set *)

\* the orders in which a Go map iteration can visit the keys
IterationOrders(S) ==
    {o \in [1..Cardinality(S) -> S] : \A i, j \in DOMAIN o : o[i] = o[j] => i = j}

ErrExists == "value already exists in the set"

\* _, ok := s[v]
Has(s, v) == v \in s

\* Mutant of Add: the value is stored without looking, and no error returned.
AddOverwrites(s, v) == [err |-> ErrNone, set |-> s \cup {v}]

\* func (s Set[T]) Add(v T) error: the error and the set after the call
Add(s, v) ==
    IF ~Has(s, v) THEN [err |-> ErrNone, set |-> s \cup {v}]
    ELSE [err |-> ErrExists, set |-> s]

\* the loop of AddMulti, had it gone on after a failed Add
RECURSIVE AddMultiAll(_, _, _)
AddMultiAll(s, val, n) ==
    IF n > Len(val) THEN [err |-> ErrNone, set |-> s, added |-> {}]
    ELSE LET r == Add(s, val[n])
             rest == AddMultiAll(r.set, val, n + 1)
         IN  [err |-> IF r.err # ErrNone THEN r.err ELSE rest.err,
              set |-> rest.set,
              added |-> (IF r.err = ErrNone THEN {val[n]} ELSE {}) \cup rest.added]

\* for _, v := range val { err := s.Add(v); if err != nil { return err } }:
\* the error, the set after the call and the values whose Add succeeded
RECURSIVE AddMultiFrom(_, _, _)
AddMultiFrom(s, val, n) ==
    IF n > Len(val) THEN [err |-> ErrNone, set |-> s, added |-> {}]
    ELSE LET r == Add(s, val[n])
         IN  IF r.err # ErrNone THEN [err |-> r.err, set |-> s, added |-> {}]
             ELSE LET rest == AddMultiFrom(r.set, val, n + 1)
                  IN  [rest EXCEPT !.added = @ \cup {val[n]}]

\* Mutant of AddMulti: the error of an Add does not end the loop.
AddMultiKeepsGoing(s, val) == AddMultiAll(s, val, 1)

\* func (s Set[T]) AddMulti(val ...T) error
AddMulti(s, val) == AddMultiFrom(s, val, 1)

\* for v := range s { res[v] = struct{}{} }, in the order the iteration takes
RECURSIVE PutAll(_, _, _)
PutAll(res, order, n) ==
    IF n > Len(order) THEN res ELSE PutAll(res \cup {order[n]}, order, n + 1)

\* func (s Set[T]) Union(s2 Set[T]): the sets the two loops can build
Union(s, s2) ==
    {PutAll(PutAll({}, o, 1), o2, 1) :
        o \in IterationOrders(s), o2 \in IterationOrders(s2)}

\* Mutant of ToSlice: make([]T, len(s)) instead of make([]T, 0, len(s)), so
\* the keys are appended after len(s) zero values.
ToSlicePadded(s) ==
    {[i \in 1..Cardinality(s) |-> 0] \o o : o \in IterationOrders(s)}

\* func ToSlice(s Set[T]): the slices the loop over the map can build
ToSlice(s) == IterationOrders(s)

\* for i := range slice { result_set[slice[i]] = struct{}{} }
ToSet(slice) == {slice[i] : i \in DOMAIN slice}

\* Mutant of Intersect: the result is the argument set, whatever s holds.
IntersectIsArgument(s, s2) == s2

\* for v := range s { if _, ok := s2[v]; !ok { continue }; res[v] = struct{}{} }
Intersect(s, s2) == {v \in s : v \in s2}

\* Mutant of Difference: the loop skips on !ok, as Intersect's does.
DifferenceKeepsShared(s, s2) == {v \in s : v \in s2}

\* for v := range s { if _, ok := s2[v]; ok { continue }; res[v] = struct{}{} }
Difference(s, s2) == {v \in s : v \notin s2}

\* Mutant of Compare: only the lengths are compared.
CompareLengths(s, s2) ==
    {[equal |-> Cardinality(s) = Cardinality(s2), mismatch |-> {}]}

\* Compare's results (equal, mismatch): the mismatch is the first element of s
\* the map iteration meets that s2 lacks, so any of them; {} stands for nil.
Compare(s, s2) ==
    IF Cardinality(s) # Cardinality(s2)
    THEN {[equal |-> FALSE, mismatch |-> {}]}
    ELSE IF \E item \in s : item \notin s2
    THEN {[equal |-> FALSE, mismatch |-> {item}] : item \in {x \in s : x \notin s2}}
    ELSE {[equal |-> TRUE, mismatch |-> {}]}

\* for k := range input_map { keys.Add(k) }
GetMapKeys(input_map) == DOMAIN input_map

-----------------------------------------------------------------------------
(* Rename: dataframe/DataFrame.go *)

ErrEmptyMap == "'columns' slice is empty"
ErrNilRename == "'df *DataFrame' param is nil"
ErrColumnAbsent == "the column is not present in DataFrame"
ErrColumnsAbsent == "the columns specified in 'columns' parameter is not present"

\* lines 476-481: the checks made before the lock is taken
RenamePrecheck(t, columns) ==
    IF DOMAIN columns = {} THEN ErrEmptyMap
    ELSE IF t.isNil THEN ErrNilRename
    ELSE ErrNone

\* lines 492-507: the errors the validation under the lock can return
RenameValidate(cols, columns) ==
    LET keys == GetMapKeys(columns)
        dfcols == ToSet(cols)
        keys_dfcols_set_intersect == Intersect(keys, dfcols)
    IN  {IF ~c.equal /\ c.mismatch # {} THEN ErrColumnAbsent
         ELSE IF ~c.equal /\ c.mismatch = {} THEN ErrColumnsAbsent
         ELSE ErrNone : c \in Compare(keys, keys_dfcols_set_intersect)}

\* for idx := range df.Columns { if df.Columns[idx] == old { df.Columns[idx] = new } }
RenameEntry(cols, old, new) ==
    [i \in DOMAIN cols |-> IF cols[i] = old THEN new ELSE cols[i]]

\* for original_column_name, new_column_name := range columns, in the order
\* the map iteration happens to take
RECURSIVE RenameInOrder(_, _, _, _)
RenameInOrder(cols, columns, order, n) ==
    IF n > Len(order) THEN cols
    ELSE RenameInOrder(RenameEntry(cols, order[n], columns[order[n]]),
                       columns, order, n + 1)

\* Mutant of FailedRenameColumns: the rewriting loop runs before the validation.
FailedRenameColumnsWritten(cols, columns) ==
    {RenameInOrder(cols, columns, o, 1) : o \in IterationOrders(DOMAIN columns)}

\* lines 503-507: a failed validation returns before the loop of line 510, so
\* the column names are the ones the call found
FailedRenameColumns(cols, columns) == {cols}

\* func (df *DataFrame) Rename(columns map[string]string) error: the possible
\* (error, table) results of the whole call
RenameRun(t, columns) ==
    IF RenamePrecheck(t, columns) # ErrNone
    THEN {[err |-> RenamePrecheck(t, columns), out |-> t, found |-> {}]}
    ELSE {[err |-> e,
           out |-> [t EXCEPT !.Columns = c],
           found |-> Intersect(GetMapKeys(columns), ToSet(t.Columns))] :
             e \in RenameValidate(t.Columns, columns) \ {ErrNone},
             c \in FailedRenameColumns(t.Columns, columns)}
         \cup
         {[err |-> ErrNone,
           out |-> [t EXCEPT !.Columns = RenameInOrder(@, columns, o, 1)],
           found |-> GetMapKeys(columns)] :
             o \in {x \in IterationOrders(DOMAIN columns) :
                       ErrNone \in RenameValidate(t.Columns, columns)}}

\* err := df[s].Rename(columns); the detail is keys_dfcols_set_intersect
Rename(s, columns) ==
    \E run \in RenameRun(df[s], columns) :
        /\ df' = [df EXCEPT ![s] = run.out]
        /\ ret' = Returned("Rename", run.err, run.found)
        /\ m' = MIdle
        /\ UNCHANGED <<call, rn, csv>>

-----------------------------------------------------------------------------
(* Rename, statement by statement, for calls that run concurrently on df1.   *)
(* rn.mu is df1's embedded sync.Mutex: 0 when unlocked, else the holder.     *)

Procs == 1..MaxProcs

\* Mutant of CanLock: Lock returns although the mutex is held.
LockIgnored(mu) == TRUE

\* line 489, df.Lock(): returns only when the mutex is unlocked
CanLock(mu) == mu = 0

\* lines 476-481: the checks before the lock
RenameEnter(p) ==
    /\ rn.pc[p] = "call"
    /\ LET e == RenamePrecheck(df["df1"], rn.columns[p])
       IN  rn' = [rn EXCEPT !.err[p] = e,
                            !.pc[p] = IF e = ErrNone THEN "lock" ELSE "done"]
    /\ UNCHANGED <<call, df, m, ret, csv>>

\* lines 489-490: df.Lock(); defer df.Unlock()
RenameLock(p) ==
    /\ rn.pc[p] = "lock"
    /\ CanLock(rn.mu)
    /\ rn' = [rn EXCEPT !.mu = p, !.pc[p] = "validate"]
    /\ UNCHANGED <<call, df, m, ret, csv>>

\* lines 492-507: the validation
RenameCheck(p) ==
    /\ rn.pc[p] = "validate"
    /\ \E e \in RenameValidate(df["df1"].Columns, rn.columns[p]) :
          rn' = [rn EXCEPT !.err[p] = e,
                           !.pc[p] = IF e = ErrNone THEN "loop" ELSE "unlock",
                           !.todo[p] = IF e = ErrNone
                                       THEN GetMapKeys(rn.columns[p]) ELSE {}]
    /\ UNCHANGED <<call, df, m, ret, csv>>

\* lines 510-516: one iteration of the loop over the map, in map order
RenameWrite(p) ==
    /\ rn.pc[p] = "loop"
    /\ \E old \in rn.todo[p] :
          /\ df' = [df EXCEPT !["df1"].Columns =
                       RenameEntry(@, old, rn.columns[p][old])]
          /\ rn' = [rn EXCEPT !.todo[p] = @ \ {old}]
    /\ UNCHANGED <<call, m, ret, csv>>

\* line 517 or an error return of lines 503-507: the deferred df.Unlock()
RenameUnlock(p) ==
    /\ \/ rn.pc[p] = "unlock"
       \/ rn.pc[p] = "loop" /\ rn.todo[p] = {}
    /\ rn' = [rn EXCEPT !.mu = 0, !.pc[p] = "done"]
    /\ UNCHANGED <<call, df, m, ret, csv>>

-----------------------------------------------------------------------------
(* The constructor GoPandas.DataFrame: package gpandas *)

\* the dynamic type of a cell (Go's %T)
TypeOf(c) ==
    IF c = Null THEN "<nil>"
    ELSE IF c < 100 THEN "int64"
    ELSE IF c < 300 THEN "string"
    ELSE IF c < 400 THEN "float64"
    ELSE IF c < 500 THEN "bool"
    ELSE "[]any"

\* the cell type each declared column type asks for (the type switch's cases)
Expected(tag) ==
    CASE tag = "FloatCol"  -> "float64"
      [] tag = "IntCol"    -> "int64"
      [] tag = "StringCol" -> "string"
      [] tag = "BoolCol"   -> "bool"
      [] OTHER             -> "any"

\* df.Data[i][j] = FloatCol{v} (IntCol{v}, ...): a one-element slice
Wrap(c) == WrapBase + c

ErrNoTypes == "columns_types map is required to assert column types"
ErrNoColumns == "at least one column name is required"
ErrNoData == "data cannot be empty"
ErrCountMismatch == "number of columns must match number of data columns"
ErrRowCount == "inconsistent row count in column"
ErrNoType == "missing type definition for column"
ErrTypeMismatch == "type mismatch for column"

\* columns_types: the nil map, or a map from column name to declared type
NilTypes == [isNil |-> TRUE, tag |-> <<>>]
Types(f) == [isNil |-> FALSE, tag |-> f]

\* Mutant of First: the loop reports the last offender it meets, not the first.
Last(S) == CHOOSE x \in S : \A y \in S : x >= y

\* for i, col := range data { if ... { return } }: the first index that fails
First(S) == CHOOSE x \in S : \A y \in S : x <= y

\* Mutant of BadCells: the type assertion's ok is read the wrong way round.
GoodCells(columns, data, types, i) ==
    {j \in DOMAIN data[i] :
        /\ Expected(types.tag[columns[i]]) # "any"
        /\ TypeOf(data[i][j]) = Expected(types.tag[columns[i]])}

\* the cells of column i whose dynamic type is not the declared one
BadCells(columns, data, types, i) ==
    {j \in DOMAIN data[i] :
        /\ Expected(types.tag[columns[i]]) # "any"
        /\ TypeOf(data[i][j]) # Expected(types.tag[columns[i]])}

\* lines 140-174: a cell as it is stored
Stored(columns, types, i, val) ==
    IF Expected(types.tag[columns[i]]) = "any" THEN val ELSE Wrap(val)

\* func (GoPandas) DataFrame(columns []string, data []Column,
\*     columns_types map[string]any) (*dataframe.DataFrame, error)
Construct(slot, columns, data, types) ==
    LET fail(e, d) == [err |-> e, detail |-> d, out |-> NilDF]
        rowCount == Len(data[1])
        short == {i \in DOMAIN data : Len(data[i]) # rowCount}
        untyped == {i \in DOMAIN columns : columns[i] \notin DOMAIN types.tag}
        bad == {i \in DOMAIN data : BadCells(columns, data, types, i) # {}}
    IN
    IF types.isNil THEN fail(ErrNoTypes, <<>>)
    ELSE IF Len(columns) = 0 THEN fail(ErrNoColumns, <<>>)
    ELSE IF Len(data) = 0 THEN fail(ErrNoData, <<>>)
    ELSE IF Len(columns) # Len(data) THEN fail(ErrCountMismatch, <<>>)
    ELSE IF short # {}
    THEN fail(ErrRowCount,
              <<columns[First(short)], rowCount, Len(data[First(short)])>>)
    ELSE IF untyped # {} THEN fail(ErrNoType, <<columns[First(untyped)]>>)
    ELSE IF bad # {}
    THEN LET i == First(bad)
             j == First(BadCells(columns, data, types, i))
         IN  fail(ErrTypeMismatch,
                  <<columns[i], types.tag[columns[i]], TypeOf(data[i][j])>>)
    ELSE [err |-> ErrNone, detail |-> <<>>,
          out |-> MkDF(columns,
                       [i \in DOMAIN data |->
                           [j \in DOMAIN data[i] |->
                               Stored(columns, types, i, data[i][j])]],
                       [i \in DOMAIN data |-> <<slot, i>>])]

\* df[s], err = GoPandas{}.DataFrame(columns, data, columns_types)
NewDataFrame(s, columns, data, types) ==
    LET run == Construct(s, columns, data, types)
    IN  /\ df' = [df EXCEPT ![s] = run.out]
        /\ ret' = Returned("DataFrame", run.err, run.detail)
        /\ m' = MIdle
        /\ UNCHANGED <<call, rn, csv>>

-----------------------------------------------------------------------------
(* Read_csv: package gpandas.  Go indices (i, start, j, k) are kept 0-based; *)
(* records[j+1] is Go's records[j].                                          *)

ErrEmptyCsv == "CSV file is empty"

\* lines 227-232: columnCount columns of len(records) nil cells
EmptyColumns(columnCount, n) == [k \in 1..columnCount |-> [j \in 1..n |-> Null]]

\* line 236: len(records) / runtime.NumCPU()
ChunkSize(n, numCPU) == n \div numCPU

\* lines 243-246: end := start + chunkSize, clamped to len(records)
ChunkEnd(start, chunkSize, n) ==
    IF start + chunkSize > n THEN n ELSE start + chunkSize

\* Mutant of Released: wg.Wait() returns while workers are still counted.
ReleasedEarly(wg) == TRUE

\* Mutant of Released: wg.Wait() returns with one worker still counted.
ReleasedAtOne(wg) == wg <= 1

\* line 261, wg.Wait(): returns when the counter is zero
Released(wg) == wg = 0

\* Mutant of StringTypes: the headers are declared with a type that the
\* constructor passes through unchecked.
AnyTypes(headers) == Types([h \in Range(headers) |-> "any"])

\* lines 264-267: every header declared StringCol
StringTypes(headers) == Types([h \in Range(headers) |-> "StringCol"])

ErrReadRecords == "error reading records"

\* a body row has another number of fields than the header
FieldCountError(headers, records) ==
    \E j \in DOMAIN records : Len(records[j]) # Len(headers)

\* lines 218-221: records, err := reader.ReadAll(); if err != nil { return }.
\* The reader is the csv package's, not this repository's: a row of another
\* width than the header may be refused here or be handed on to the workers
\* (ReadCsvAlloc); the model follows both.
ReadCsvReject ==
    /\ csv.pc = "read"
    /\ FieldCountError(csv.headers, csv.records)
    /\ csv' = [csv EXCEPT !.pc = "done"]
    /\ ret' = Returned("Read_csv", ErrReadRecords, <<>>)
    /\ UNCHANGED <<call, df, m, rn>>

\* Mutant of EmptyBody: the check of line 223 never fires.
NeverEmpty(records) == FALSE

\* line 223: len(records) == 0
EmptyBody(records) == Len(records) = 0

\* lines 223-236: the empty check, the allocation and the chunk size
ReadCsvAlloc ==
    /\ csv.pc = "read"
    /\ IF EmptyBody(csv.records)
       THEN /\ csv' = [csv EXCEPT !.pc = "done"]
            /\ ret' = Returned("Read_csv", ErrEmptyCsv, <<>>)
       ELSE /\ csv' = [csv EXCEPT
                          !.pc = "spawn",
                          !.data = EmptyColumns(Len(csv.headers), Len(csv.records)),
                          !.chunkSize = ChunkSize(Len(csv.records), csv.numCPU)]
            /\ ret' = ret
    /\ UNCHANGED <<call, df, m, rn>>

\* lines 239-241 and 257: one iteration of the launching loop; the model
\* follows the loop up to MaxWorkers goroutines
Launch ==
    /\ csv.pc = "spawn"
    /\ csv.i < Len(csv.records)
    /\ Len(csv.workers) < MaxWorkers
    /\ csv' = [csv EXCEPT
                  !.wg = @ + 1,
                  !.workers = Append(@, [start |-> csv.i, j |-> csv.i, k |-> 0,
                                         pc |-> "run"]),
                  !.i = @ + csv.chunkSize]
    /\ UNCHANGED <<call, df, m, ret, rn>>

\* line 239: the loop condition fails
LaunchEnd ==
    /\ csv.pc = "spawn"
    /\ csv.i >= Len(csv.records)
    /\ csv' = [csv EXCEPT !.pc = "wait"]
    /\ UNCHANGED <<call, df, m, ret, rn>>

\* lines 242-256: one step of worker w: it ends at the end of its chunk or at
\* a row of another width, else it writes one cell
Work(w) ==
    LET me == csv.workers[w]
        end == ChunkEnd(me.start, csv.chunkSize, Len(csv.records))
        finished == [csv EXCEPT !.workers[w].pc = "done", !.wg = @ - 1]
    IN
    /\ csv.pc \in {"spawn", "wait", "construct", "done"}
    /\ me.pc = "run"
    /\ IF me.j >= end THEN csv' = finished
       ELSE LET row == csv.records[me.j + 1]
            IN  IF Len(row) # Len(csv.headers) THEN csv' = finished
                ELSE IF me.k >= Len(row)
                THEN csv' = [csv EXCEPT !.workers[w].j = @ + 1, !.workers[w].k = 0]
                ELSE csv' = [csv EXCEPT !.data[me.k + 1][me.j + 1] = row[me.k + 1],
                                        !.workers[w].k = @ + 1]
    /\ UNCHANGED <<call, df, m, ret, rn>>

\* line 261: wg.Wait()
Wait ==
    /\ csv.pc = "wait"
    /\ Released(csv.wg)
    /\ csv' = [csv EXCEPT !.pc = "construct"]
    /\ UNCHANGED <<call, df, m, ret, rn>>

\* lines 264-270: return GoPandas{}.DataFrame(headers, data, columns_types)
ReadCsvReturn ==
    /\ csv.pc = "construct"
    /\ LET run == Construct("res", csv.headers, csv.data, StringTypes(csv.headers))
       IN  /\ df' = [df EXCEPT !["res"] = run.out]
           /\ ret' = Returned("Read_csv", run.err, run.detail)
    /\ csv' = [csv EXCEPT !.pc = "done"]
    /\ UNCHANGED <<call, m, rn>>

-----------------------------------------------------------------------------
(* SpecMerge: one Merge call on two row-oriented tables (Data[row][column],  *)
(* as the struct literals of TestDataFrameMerge build them)                  *)

JoinCol == "ID"
ColNames == {"ID", "Name"}
OnCols == {"ID", "Name"}
Hows == MergeKinds \cup {"invalid"}

KeyVals == Null..MaxVal

\* a scalar that is not a join key, different for every cell of both tables
Tag(slot, i, c) == (IF slot = "df1" THEN 100 ELSE 200) + 10 * i + c

\* the table with the given column names whose first JoinCol column holds keys
Literal(slot, cols, keys) ==
    MkDF(cols,
         [i \in 1..Len(keys) |->
             [c \in 1..Len(cols) |->
                 IF c = ColIdx(cols, JoinCol) THEN keys[i] ELSE Tag(slot, i, c)]],
         [i \in 1..Len(keys) |-> <<slot, i>>])

Schemas == SeqsUpTo(ColNames, 2) \ {<<>>}

Literals(slot) ==
    {Literal(slot, cols, keys) :
        cols \in Schemas, keys \in SeqsUpTo(KeyVals, MaxRows)}

\* the tables of TestDataFrameMerge's right-merge and full-merge cases
TestLeft == Literal("df1", <<"ID", "Name">>, <<1, 2, 3>>)
TestRight == Literal("df2", <<"ID", "Age">>, <<1, 2, 4>>)
TestLeft2 == Literal("df1", <<"ID", "Name">>, <<1, 2>>)
TestRight3 == Literal("df2", <<"ID", "Age">>, <<1, 2, 3>>)

InitMerge ==
    /\ \/ \E l \in Literals("df1") \cup {NilDF}, r \in Literals("df2") \cup {NilDF} :
              df = [s \in Slots |-> IF s = "df1" THEN l ELSE IF s = "df2" THEN r ELSE NilDF]
       \/ df = [s \in Slots |-> IF s = "df1" THEN TestLeft ELSE IF s = "df2" THEN TestRight ELSE NilDF]
       \/ df = [s \in Slots |-> IF s = "df1" THEN TestLeft2 ELSE IF s = "df2" THEN TestRight3 ELSE NilDF]
    /\ m = MIdle
    /\ ret = Returned("", ErrNone, <<>>)
    /\ rn = RnIdle
    /\ csv = CsvIdle
    /\ call = NoCall

NextMerge ==
    \E on \in OnCols, how \in Hows :
        /\ ret.op = ""
        /\ Merge("df1", "df2", on, how)

SpecMerge == InitMerge /\ [][NextMerge]_vars

-----------------------------------------------------------------------------
(* Spec: a program that constructs tables df1 and df2, renames columns and  *)
(* merges df1 with df2 into res, one call after another                      *)

\* the column-name sequences handed to the constructor: non-empty, no repeats
CtorColumns ==
    {c \in SeqsUpTo(ColNames, 2) \ {<<>>} : \A i, j \in DOMAIN c : c[i] = c[j] => i = j}

\* column data of n rows: an int64 row number in every column
CtorData(columns, n) == [i \in DOMAIN columns |-> [j \in 1..n |-> j]]

\* columns_types: every column declared IntCol, every column declared with a
\* type the switch has no case for, or no map at all
CtorTypes ==
    {Types([c \in ColNames |-> "IntCol"]), Types([c \in ColNames |-> "any"]), NilTypes}

\* the rename maps: from column names and a name no table has (Zip) to
\* column names; the empty map is one of them
RenameKeys == ColNames \cup {"Zip"}
RenameMaps == UNION {[K -> ColNames] : K \in SUBSET RenameKeys}

Init ==
    /\ df = [s \in Slots |-> NilDF]
    /\ m = MIdle
    /\ ret = Returned("", ErrNone, <<>>)
    /\ rn = RnIdle
    /\ csv = CsvIdle
    /\ call = NoCall

\* a call is made only while the program runs: a panic ended it
Running == ret.err # Panic

\* df1 and df2 are built once each, by the constructor
BuildTable ==
    /\ Running
    /\ \E s \in {"df1", "df2"}, columns \in CtorColumns, n \in 0..MaxCtorRows,
          types \in CtorTypes :
           /\ df[s].isNil
           /\ NewDataFrame(s, columns, CtorData(columns, n), types)

RenameTable ==
    /\ Running
    /\ \E s \in Slots, columns \in RenameMaps : Rename(s, columns)

MergeTables ==
    /\ Running
    /\ \E on \in OnCols, how \in Hows : Merge("df1", "df2", on, how)

Next ==
    \/ BuildTable
    \/ RenameTable
    \/ MergeTables

Spec == Init /\ [][Next]_vars

-----------------------------------------------------------------------------
(* Claims about Merge, checked under SpecMerge *)

L == df["df1"]
R == df["df2"]
Out == df["res"]

MergeReturned == ret.op = "Merge"
MergeOk == MergeReturned /\ ret.err = ErrNone

LKey(i) == L.Data[i][ColIdx(L.Columns, m.on)]
RKey(j) == R.Data[j][ColIdx(R.Columns, m.on)]

MatchPairs == {p \in (DOMAIN L.Data) \X (DOMAIN R.Data) : LKey(p[1]) = RKey(p[2])}
UnmatchedLeft == {i \in DOMAIN L.Data : \A j \in DOMAIN R.Data : LKey(i) # RKey(j)}
UnmatchedRight == {j \in DOMAIN R.Data : \A i \in DOMAIN L.Data : LKey(i) # RKey(j)}
AbsentFromLeft == {j \in DOMAIN R.Data : RKey(j) \notin {LKey(i) : i \in DOMAIN L.Data}}

InnerCount == Cardinality(MatchPairs)
LeftCount == InnerCount + Cardinality(UnmatchedLeft)
RightCount == InnerCount + Cardinality(UnmatchedRight)
FullCount == LeftCount + Cardinality(AbsentFromLeft)

\* C1: for row-oriented tables and a join column present in both, the number
\* of rows Merge returns is: inner = the number of (left row, right row) pairs
\* with equal join keys; left = inner + the left rows without a match;
\* right = inner + the right rows without a match; full = left + the right
\* rows whose key occurs nowhere in the left join column.
C1_RowCountLaws ==
    MergeOk =>
        Len(Out.Data) = CASE m.how = InnerMerge -> InnerCount
                          [] m.how = LeftMerge  -> LeftCount
                          [] m.how = RightMerge -> RightCount
                          [] m.how = FullMerge  -> FullCount

\* a full merge with duplicate keys on both sides (2 x 2 fan-out)
C1_Witness ==
    /\ MergeOk
    /\ m.how = FullMerge
    /\ Len(L.Data) = 2 /\ Len(R.Data) = 2
    /\ Cardinality(MatchPairs) = 4
    /\ Len(Out.Data) = 4

\* the cells of TestDataFrameMerge's tables
Alice == Tag("df1", 1, 2)
Bob == Tag("df1", 2, 2)
Charlie == Tag("df1", 3, 2)
Age25 == Tag("df2", 1, 2)
Age30 == Tag("df2", 2, 2)
Age35 == Tag("df2", 3, 2)

\* C2: in a right and in a full join a right row without a match in the left
\* table is emitted with its own join-key value in the join column and null in
\* the other left columns; on the tables of the documentation this gives
\* (1,Alice,25),(2,Bob,30),(4,null,35) for right and
\* (1,Alice,25),(2,Bob,30),(3,Charlie,null),(4,null,35) for full.
C2_RightOnlyRowKeepsKey ==
    (MergeOk /\ m.how \in {RightMerge, FullMerge}) =>
        /\ \A k \in DOMAIN Out.Data :
              (m.prov[k][1] = 0) =>
                  \A c \in DOMAIN L.Columns :
                      Out.Data[k][c] = IF c = m.df1ColIdx THEN RKey(m.prov[k][2])
                                       ELSE Null
        /\ (L = TestLeft /\ R = TestRight /\ m.on = JoinCol /\ m.how = RightMerge) =>
              Out.Data = << <<1, Alice, Age25>>, <<2, Bob, Age30>>,
                            <<4, Null, Age35>> >>
        /\ (L = TestLeft /\ R = TestRight /\ m.on = JoinCol /\ m.how = FullMerge) =>
              Out.Data = << <<1, Alice, Age25>>, <<2, Bob, Age30>>,
                            <<3, Charlie, Null>>, <<4, Null, Age35>> >>

NilInput == L.isNil \/ R.isNil
MissingColumn == m.on \notin Range(L.Columns) \/ m.on \notin Range(R.Columns)
BadKind == m.how \notin MergeKinds

\* C5: Merge returns an error and no table whenever a table is nil, the join
\* column is missing from either table or the join kind is not one of the
\* four; each violation is detected before any output (the result's column
\* names, its rows) is allocated; in every other case Merge returns a table
\* and no error.
C5_ErrorsBeforeAllocation ==
    MergeReturned =>
        /\ (NilInput \/ MissingColumn \/ BadKind) <=> ret.err # ErrNone
        /\ ret.err # ErrNone => (Out = NilDF /\ m.resultColumns = <<>>)
        /\ ret.err = ErrNone => ~Out.isNil

\* C6: Merge never mutates its inputs (column names, cells), for all four
\* join kinds and every error outcome, and the rows of the returned table
\* live in backing arrays of their own.
C6_InputsUntouched ==
    /\ [][df'["df1"] = df["df1"] /\ df'["df2"] = df["df2"]]_vars
    /\ [](MergeOk => Range(Out.store) \cap (Range(L.store) \cup Range(R.store)) = {})

\* a left merge that copied a matched and an unmatched left row
C6_Witness ==
    /\ MergeOk
    /\ m.how = LeftMerge
    /\ \E k \in DOMAIN m.prov : m.prov[k][1] # 0 /\ m.prov[k][2] # 0
    /\ \E k \in DOMAIN m.prov : m.prov[k][1] # 0 /\ m.prov[k][2] = 0

WithoutPosition(s, skip) == RowWithout(s, skip, 1)

\* C7: on success the output column names are the left table's columns in
\* order, then the right table's columns in order with exactly the join column
\* removed, and there are as many output column names as every output row has
\* cells.
C7_OutputColumns ==
    MergeOk =>
        /\ Out.Columns = L.Columns \o WithoutPosition(R.Columns, ColIdx(R.Columns, m.on))
        /\ \A k \in DOMAIN Out.Data : Len(Out.Data[k]) = Len(Out.Columns)

\* the input rows output row k was built from, read off its cells
BuiltFrom(k) ==
    /\ m.prov[k][1] # 0 =>
          SubSeq(Out.Data[k], 1, Len(L.Columns)) = L.Data[m.prov[k][1]]
    /\ m.prov[k][2] # 0 =>
          SubSeq(Out.Data[k], Len(L.Columns) + 1, Len(Out.Data[k]))
              = WithoutPosition(R.Data[m.prov[k][2]], ColIdx(R.Columns, m.on))

\* C8: the output rows follow the driving table's row order (left for
\* inner/left/full, right for right), and the rows one driving row yields
\* appear in the matched table's row order.
C8_DrivingOrder ==
    MergeOk =>
        /\ \A k \in DOMAIN Out.Data : BuiltFrom(k)
        /\ \A k1, k2 \in DOMAIN m.prov :
              LET drive == IF m.how = RightMerge THEN 2 ELSE 1
                  other == IF m.how = RightMerge THEN 1 ELSE 2
              IN  (k1 < k2 /\ m.prov[k1][drive] # 0 /\ m.prov[k2][drive] # 0) =>
                      /\ m.prov[k1][drive] <= m.prov[k2][drive]
                      /\ m.prov[k1][drive] = m.prov[k2][drive] =>
                             m.prov[k1][other] < m.prov[k2][other]

\* a right merge in which each of two right rows matches the same two left rows
C8_Witness ==
    /\ MergeOk
    /\ m.how = RightMerge
    /\ m.prov = << <<1, 1>>, <<2, 1>>, <<1, 2>>, <<2, 2>> >>

-----------------------------------------------------------------------------
(* Claims checked under Spec *)

\* C3: Rename is all-or-nothing: whenever a Rename call returns an error
\* (empty map, nil table, a key that is no column name) every table, its
\* column names and its data, is what it was before the call, also when other
\* keys of the map name existing columns.
C3_RenameAllOrNothing ==
    [][(ret'.op = "Rename" /\ ret'.err # ErrNone) => df' = df]_vars

\* a Rename rejected although one of its keys names a column of the table
C3_Witness ==
    /\ ret.op = "Rename"
    /\ ret.err \in {ErrColumnAbsent, ErrColumnsAbsent}
    /\ ret.detail # {}

HasDuplicates(cols) == \E i, j \in DOMAIN cols : i # j /\ cols[i] = cols[j]

\* C10: column names are unique in every table: after any sequence of
\* Construct, Rename and Merge calls that starts from tables built by
\* Construct, no table has two columns of the same name.
C10_UniqueColumnNames ==
    \A s \in Slots : ~df[s].isNil => ~HasDuplicates(df[s].Columns)

-----------------------------------------------------------------------------
(* SpecRename: MaxProcs goroutines call Rename on df1 at the same time *)

RaceMaps == {c \in RenameMaps : Cardinality(DOMAIN c) <= 2}

InitRename ==
    /\ df = [s \in Slots |->
                IF s = "df1" THEN Literal("df1", <<"ID", "Name">>, <<1>>) ELSE NilDF]
    /\ m = MIdle
    /\ ret = Returned("", ErrNone, <<>>)
    /\ csv = CsvIdle
    /\ call = NoCall
    /\ \E maps \in [Procs -> RaceMaps] :
          rn = [mu |-> 0,
                pc |-> [p \in Procs |-> "call"],
                columns |-> maps,
                err |-> [p \in Procs |-> ErrNone],
                todo |-> [p \in Procs |-> {}],
                start |-> <<"ID", "Name">>]

NextRename ==
    \E p \in Procs :
        \/ RenameEnter(p)
        \/ RenameLock(p)
        \/ RenameCheck(p)
        \/ RenameWrite(p)
        \/ RenameUnlock(p)

SpecRename == InitRename /\ [][NextRename]_vars

\* the calls that are between Lock and Unlock
InSection == {p \in Procs : rn.pc[p] \in {"validate", "loop", "unlock"}}

\* the (column names, errors) the calls give when run one after another in
\* the given order, from the n-th call on
RECURSIVE SerialFrom(_, _, _, _)
SerialFrom(t, errs, order, n) ==
    IF n > Len(order) THEN {[Columns |-> t.Columns, err |-> errs]}
    ELSE UNION {SerialFrom(run.out, [errs EXCEPT ![order[n]] = run.err], order, n + 1) :
                   run \in RenameRun(t, rn.columns[order[n]])}

Serial(order) ==
    SerialFrom([df["df1"] EXCEPT !.Columns = rn.start],
               [p \in Procs |-> ErrNone], order, 1)

AllDone == \A p \in Procs : rn.pc[p] = "done"

\* C9: concurrent Rename calls on one table are serialised by its lock: no
\* two calls are between Lock and Unlock at the same time, and when all have
\* returned the column names and every call's error are those of running
\* the calls one after another in some order.
C9_RenamesSerialised ==
    /\ Cardinality(InSection) <= 1
    /\ AllDone =>
          \E order \in IterationOrders(Procs) :
              [Columns |-> df["df1"].Columns, err |-> rn.err] \in Serial(order)

\* two calls both succeeded, the second renaming what the first had renamed
C9_Witness ==
    /\ AllDone
    /\ \E p, q \in Procs : p # q /\ rn.err[p] = ErrNone /\ rn.err[q] = ErrNone
                           /\ "ID" \in DOMAIN rn.columns[p]
                           /\ "Name" \in DOMAIN rn.columns[q]
    /\ df["df1"].Columns # rn.start

-----------------------------------------------------------------------------
(* SpecCsv: one Read_csv call on a machine with numCPU processors *)

\* field k of body row j, different for every field
Field(j, k) == 100 + 10 * j + k

Headers(n) == [k \in 1..n |-> ToString(k)]

\* the bodies: rows of the header's width, one field short or one too long
Bodies(columnCount) ==
    {[j \in 1..Len(w) |-> [k \in 1..(columnCount - w[j]) |-> Field(j, k)]] :
        w \in SeqsUpTo({0, 1, -1}, MaxCsvRows)}

InitCsv ==
    /\ df = [s \in Slots |-> NilDF]
    /\ m = MIdle
    /\ ret = Returned("", ErrNone, <<>>)
    /\ rn = RnIdle
    /\ call = NoCall
    /\ \E columnCount \in 1..MaxCsvCols, numCPU \in 1..MaxCPU :
       \E records \in Bodies(columnCount) :
          csv = [pc |-> "read", headers |-> Headers(columnCount),
                 records |-> records, numCPU |-> numCPU, chunkSize |-> 0,
                 i |-> 0, wg |-> 0, workers |-> <<>>, data |-> <<>>]

NextCsv ==
    \/ ReadCsvReject
    \/ ReadCsvAlloc
    \/ Launch
    \/ LaunchEnd
    \/ \E w \in DOMAIN csv.workers : Work(w)
    \/ Wait
    \/ ReadCsvReturn

SpecCsv == InitCsv /\ [][NextCsv]_vars

WellFormed == \A j \in DOMAIN csv.records : Len(csv.records[j]) = Len(csv.headers)

\* the column arrays exist: the call is past the allocation of lines 227-232
Allocated == csv.pc \in {"spawn", "wait", "construct", "done"} /\ csv.records # <<>>

\* the column arrays of a single-threaded parse: cell [k][j] is field k of row j
SequentialParse ==
    [k \in DOMAIN csv.headers |-> [j \in DOMAIN csv.records |-> csv.records[j][k]]]

-----------------------------------------------------------------------------
(* SpecCtor: one call of the constructor on arbitrary arguments *)

\* an int64 and a string
CtorCells == {1, 100}

\* the column arrays
CtorArrays == SeqsUpTo(CtorCells, MaxCtorRows)

CtorTags == {"IntCol", "StringCol", "any"}

\* nil, or a map that declares a type for some of the names
CtorTypeMaps == {NilTypes} \cup {Types(f) : f \in UNION {[K -> CtorTags] : K \in SUBSET ColNames}}

InitCtor ==
    /\ df = [s \in Slots |-> NilDF]
    /\ m = MIdle
    /\ ret = Returned("", ErrNone, <<>>)
    /\ rn = RnIdle
    /\ csv = CsvIdle
    /\ \E columns \in SeqsUpTo(ColNames, MaxCtorCols),
          data \in SeqsUpTo(CtorArrays, MaxCtorCols),
          types \in CtorTypeMaps :
          call = [op |-> "DataFrame", columns |-> columns, data |-> data,
                  types |-> types]

NextCtor ==
    /\ ret.op = ""
    /\ NewDataFrame("df1", call.columns, call.data, call.types)

SpecCtor == InitCtor /\ [][NextCtor]_vars

Constructed == ret.op = "DataFrame"

NoTypeMap == call.types.isNil
NoNames == Len(call.columns) = 0
NoArrays == Len(call.data) = 0
CountMismatch == Len(call.columns) # Len(call.data)

\* the columns whose length is not the first column's
OddLengths == {i \in DOMAIN call.data : Len(call.data[i]) # Len(call.data[1])}

\* the positions whose column name has no declared type
Undeclared ==
    {i \in DOMAIN call.columns : call.columns[i] \notin DOMAIN call.types.tag}

Earliest(S) == CHOOSE i \in S : \A j \in S : i <= j

\* C11: the constructor checks its arguments in a fixed order and reports the
\* first violated check: type map absent, column names empty, column data
\* empty, name/data count mismatch, the first column whose length differs
\* from the first column's (the error names it and both lengths), the first
\* column name missing from the type map (the error names it); with several
\* violations the earliest in this order decides, and no table is returned.
C11_ValidationOrder ==
    Constructed =>
        /\ NoTypeMap => ret.err = ErrNoTypes
        /\ (~NoTypeMap /\ NoNames) => ret.err = ErrNoColumns
        /\ (~NoTypeMap /\ ~NoNames /\ NoArrays) => ret.err = ErrNoData
        /\ (~NoTypeMap /\ ~NoNames /\ ~NoArrays /\ CountMismatch) =>
              ret.err = ErrCountMismatch
        /\ (~NoTypeMap /\ ~NoNames /\ ~NoArrays /\ ~CountMismatch) =>
              /\ OddLengths # {} =>
                    /\ ret.err = ErrRowCount
                    /\ ret.detail = <<call.columns[Earliest(OddLengths)],
                                      Len(call.data[1]),
                                      Len(call.data[Earliest(OddLengths)])>>
              /\ (OddLengths = {} /\ Undeclared # {}) =>
                    /\ ret.err = ErrNoType
                    /\ ret.detail = <<call.columns[Earliest(Undeclared)]>>
        /\ ret.err \in {ErrNoTypes, ErrNoColumns, ErrNoData, ErrCountMismatch,
                        ErrRowCount, ErrNoType} => df["df1"].isNil

\* two columns of another length than the first and an undeclared name: the
\* error is about the first of the two columns
C11_Witness ==
    /\ Constructed
    /\ ~NoTypeMap
    /\ Cardinality(OddLengths) = 2
    /\ Undeclared # {}
    /\ ret.err = ErrRowCount
    /\ ret.detail[1] = call.columns[2]

\* every check before the cells passes
ShapeOk ==
    /\ ~NoTypeMap /\ ~NoNames /\ ~NoArrays /\ ~CountMismatch
    /\ OddLengths = {} /\ Undeclared = {}

Typed(i) == call.types.tag[call.columns[i]] \in {"FloatCol", "IntCol", "StringCol", "BoolCol"}

\* the cells that are not of the dynamic type their column declares
Mismatches ==
    {p \in {q \in (DOMAIN call.data) \X (1..MaxCtorRows + 1) : q[2] \in DOMAIN call.data[q[1]]} :
        /\ Typed(p[1])
        /\ TypeOf(call.data[p[1]][p[2]]) # Expected(call.types.tag[call.columns[p[1]]])}

\* column i has another length than every other column, which all agree
OddOneOut(i) ==
    /\ Len(call.data) >= 3
    /\ \A j, k \in DOMAIN call.data \ {i} : Len(call.data[j]) = Len(call.data[k])
    /\ \A j \in DOMAIN call.data \ {i} : Len(call.data[j]) # Len(call.data[i])

\* C12 as stated: whenever all column arrays share one length and every
\* column has a declared type (there being a name for each array and at least
\* one) the constructor succeeds; whenever a column's length differs from the
\* others it fails with an error naming that column.
C12_SucceedsOnEqualLengths ==
    Constructed =>
        /\ ShapeOk => ret.err = ErrNone
        /\ \A i \in DOMAIN call.data :
              OddOneOut(i) => (ret.err = ErrRowCount /\ ret.detail[1] = call.columns[i])

\* C12 amended: the constructor succeeds exactly when there is a type map, at
\* least one name, as many arrays as names, one length for all arrays, a
\* declared type for every name and no cell of another dynamic type than its
\* float, integer, string or boolean column declares; whenever some array's
\* length differs from the first array's it fails, and when the four checks
\* before the lengths pass the error names the first such column.
C12_SucceedsOnValidInput ==
    Constructed =>
        /\ (ShapeOk /\ Mismatches = {}) <=> ret.err = ErrNone
        /\ ret.err = ErrNone <=> ~df["df1"].isNil
        /\ OddLengths # {} => ret.err # ErrNone
        /\ (~NoTypeMap /\ ~NoNames /\ ~NoArrays /\ ~CountMismatch /\ OddLengths # {}) =>
              (ret.err = ErrRowCount
                  /\ ret.detail[1] = call.columns[Earliest(OddLengths)])

\* a table of a typed and an untyped column was built
C12_Witness ==
    /\ Constructed
    /\ ret.err = ErrNone
    /\ Len(call.data) >= 2
    /\ Len(call.data[1]) >= 1
    /\ \E i, j \in DOMAIN call.columns : Typed(i) /\ ~Typed(j)

\* the first cell the conversion loop finds of another type than declared
FirstMismatch ==
    CHOOSE p \in Mismatches :
        \A q \in Mismatches : p[1] < q[1] \/ (p[1] = q[1] /\ p[2] <= q[2])

\* C13: when a cell of a column declared float, integer, string or boolean
\* holds a value of another dynamic type, the constructor returns no table
\* and an error that identifies the column name, the row index of the cell,
\* the expected type and the actual type.
C13_MismatchErrorNamesCell ==
    (Constructed /\ ShapeOk /\ Mismatches # {}) =>
        /\ df["df1"].isNil
        /\ ret.err = ErrTypeMismatch
        /\ ret.detail = <<call.columns[FirstMismatch[1]],
                          FirstMismatch[2] - 1,
                          call.types.tag[call.columns[FirstMismatch[1]]],
                          TypeOf(call.data[FirstMismatch[1]][FirstMismatch[2]])>>

-----------------------------------------------------------------------------
(* SpecRenameCall: one Rename call on a table of one row *)

InitRenameCall ==
    /\ m = MIdle
    /\ ret = Returned("", ErrNone, <<>>)
    /\ rn = RnIdle
    /\ csv = CsvIdle
    /\ \E cols \in Schemas, columns \in RenameMaps :
          /\ df = [s \in Slots |->
                      IF s = "df1" THEN Literal("df1", cols, <<1>>) ELSE NilDF]
          /\ call = [op |-> "Rename", columns |-> columns,
                     before |-> Literal("df1", cols, <<1>>)]

NextRenameCall ==
    /\ ret.op = ""
    /\ Rename("df1", call.columns)

SpecRenameCall == InitRenameCall /\ [][NextRenameCall]_vars

\* the column names after renaming every column at once
Substituted(cols, columns) ==
    [i \in DOMAIN cols |->
        IF cols[i] \in DOMAIN columns THEN columns[cols[i]] ELSE cols[i]]

\* C14: after a successful Rename the column sequence has the length and
\* order it had, position i holds renameMap[old[i]] when old[i] is a key of
\* the map and old[i] otherwise (one simultaneous substitution, each column
\* renamed at most once), whatever the order in which the map's entries are
\* applied, and the cell data is unchanged.
C14_SimultaneousSubstitution ==
    (ret.op = "Rename" /\ ret.err = ErrNone) =>
        /\ df["df1"].Columns = Substituted(call.before.Columns, call.columns)
        /\ df["df1"].Data = call.before.Data

-----------------------------------------------------------------------------
(* Claims about Read_csv, checked under SpecCsv *)

Returns == csv.pc = "done"

\* C15: if a body row has another field count than the header, ingestion
\* returns an error and no table, wherever the row is, however the body is
\* chunked and however the workers interleave: no table is ever returned
\* that misses the data of the malformed chunk.
C15_MalformedRowIsAnError ==
    ~WellFormed =>
        /\ df["res"].isNil
        /\ Returns => ret.err # ErrNone

\* the second of three rows is short, three workers ran, the first and the
\* third row were parsed and the call returned the constructor's error
C15_Witness ==
    /\ Returns
    /\ Len(csv.records) = 3
    /\ Len(csv.workers) = 3
    /\ Len(csv.records[2]) # Len(csv.headers)
    /\ Len(csv.headers) = 2
    /\ csv.data[1] = <<csv.records[1][1], Null, csv.records[3][1]>>
    /\ ret.err = ErrTypeMismatch

\* C16: ingestion of a header with an empty body returns an error and no
\* table, and launches no worker.
C16_EmptyBodyIsAnError ==
    csv.records = <<>> =>
        /\ csv.workers = <<>>
        /\ df["res"].isNil
        /\ Returns => ret.err = ErrEmptyCsv

\* the call on an empty body has returned
C16_Witness ==
    /\ csv.records = <<>>
    /\ Returns
    /\ ret.op = "Read_csv"
    /\ ret.err = ErrEmptyCsv

-----------------------------------------------------------------------------
(* SpecSetOps: the functions of utils/collection/set.go that build a new set *)
(* or slice, each applied once to sets s, s2 and a slice drawn from Elems.   *)
(* Elements are values whose == is an equivalence (int, string): a map key   *)
(* that is not equal to itself (a floating-point NaN) is not in Elems.       *)

Elems == 1..MaxElem

InitSetOps ==
    /\ df = [t \in Slots |-> NilDF]
    /\ m = MIdle
    /\ ret = Returned("", ErrNone, <<>>)
    /\ rn = RnIdle
    /\ csv = CsvIdle
    /\ \E s \in SUBSET Elems, s2 \in SUBSET Elems,
          slice \in SeqsUpTo(Elems, MaxSliceLen) :
          call = [op |-> "Set", s |-> s, s2 |-> s2, slice |-> slice]

\* s.Union(s2), s2.Union(s), s.Union(s), s.Intersect(s2), s.Difference(s2)
SetAlgebra ==
    /\ ret.op = ""
    /\ \E ab \in Union(call.s, call.s2), ba \in Union(call.s2, call.s),
          aa \in Union(call.s, call.s) :
          ret' = Returned("Union", ErrNone,
                          [ab |-> ab, ba |-> ba, aa |-> aa,
                           intersect |-> Intersect(call.s, call.s2),
                           difference |-> Difference(call.s, call.s2)])
    /\ UNCHANGED <<df, m, rn, csv, call>>

\* ToSlice(s), ToSet of that slice compared with s, and ToSet(slice)
SetConversions ==
    /\ ret.op = ""
    /\ \E result_slice \in ToSlice(call.s) :
          \E cmp \in Compare(ToSet(result_slice), call.s) :
              ret' = Returned("ToSlice", ErrNone,
                              [slice |-> result_slice,
                               back |-> ToSet(result_slice),
                               compare |-> cmp,
                               set |-> ToSet(call.slice)])
    /\ UNCHANGED <<df, m, rn, csv, call>>

\* equal, mismatch := s.Compare(s2)
SetCompare ==
    /\ ret.op = ""
    /\ \E cmp \in Compare(call.s, call.s2) :
          ret' = Returned("Compare", ErrNone, cmp)
    /\ UNCHANGED <<df, m, rn, csv, call>>

NextSetOps == SetAlgebra \/ SetConversions \/ SetCompare

SpecSetOps == InitSetOps /\ [][NextSetOps]_vars

\* C17: for all sets A and B over Elems, Union(A,B) = Union(B,A) and
\* Union(A,A) = A, every element of Intersect(A,B) is in A and in B, no
\* element of Difference(A,B) is in B, and the three results are the
\* mathematical union, intersection and difference of A and B.
C17_SetAlgebraLaws ==
    ret.op = "Union" =>
        LET A == call.s
            B == call.s2
            out == ret.detail
        IN  /\ out.ab = out.ba
            /\ out.aa = A
            /\ \A v \in out.intersect : v \in A /\ v \in B
            /\ \A v \in out.difference : v \notin B
            /\ out.ab = A \cup B
            /\ out.intersect = A \cap B
            /\ out.difference = A \ B

\* the operations were applied to two sets that overlap and that each hold an
\* element the other lacks
C17_Witness ==
    /\ ret.op = "Union"
    /\ call.s \cap call.s2 # {}
    /\ call.s \ call.s2 # {}
    /\ call.s2 \ call.s # {}
    /\ ret.detail.intersect # {}
    /\ ret.detail.difference # {}

\* C18: for every set S, ToSet(ToSlice(S)) is equal to S under Compare and
\* ToSlice(S) has exactly |S| entries; for every sequence q, with or without
\* repeated entries, ToSet(q) holds exactly the distinct entries of q.
C18_RoundTrip ==
    ret.op = "ToSlice" =>
        LET S == call.s
            q == call.slice
            out == ret.detail
        IN  /\ out.compare.equal
            /\ out.back = S
            /\ Len(out.slice) = Cardinality(S)
            /\ \A v \in Elems : v \in out.set <=> \E i \in DOMAIN q : q[i] = v
            /\ out.set \subseteq Elems

\* a set of several elements made the round trip, and a sequence with a
\* repeated entry was converted to a smaller set
C18_Witness ==
    /\ ret.op = "ToSlice"
    /\ Cardinality(call.s) >= 2
    /\ ret.detail.compare.equal
    /\ \E i, j \in DOMAIN call.slice : i # j /\ call.slice[i] = call.slice[j]
    /\ Cardinality(ret.detail.set) < Len(call.slice)

-----------------------------------------------------------------------------
(* SpecSet: one Set, made by NewSet, that Add and AddMulti calls change one  *)
(* after another.  call.s is the set; call.succeeded records every value for *)
(* which an Add call (made directly or by AddMulti) returned nil.            *)

InitSet ==
    /\ df = [t \in Slots |-> NilDF]
    /\ m = MIdle
    /\ ret = Returned("", ErrNone, <<>>)
    /\ rn = RnIdle
    /\ csv = CsvIdle
    /\ call = [op |-> "Set", s |-> {}, succeeded |-> {}]

\* err := s.Add(v)
SetAdd ==
    \E v \in Elems :
        LET r == Add(call.s, v)
        IN  /\ call' = [call EXCEPT !.s = r.set,
                            !.succeeded = IF r.err = ErrNone THEN @ \cup {v} ELSE @]
            /\ ret' = Returned("Add", r.err, [val |-> <<v>>, before |-> call.s])
            /\ UNCHANGED <<df, m, rn, csv>>

\* err := s.AddMulti(val...)
SetAddMulti ==
    \E val \in SeqsUpTo(Elems, MaxSliceLen) :
        LET r == AddMulti(call.s, val)
        IN  /\ call' = [call EXCEPT !.s = r.set, !.succeeded = @ \cup r.added]
            /\ ret' = Returned("AddMulti", r.err, [val |-> val, before |-> call.s])
            /\ UNCHANGED <<df, m, rn, csv>>

NextSet == SetAdd \/ SetAddMulti

SpecSet == InitSet /\ [][NextSet]_vars

\* C19: Add(v) on a set that already holds v returns an error and leaves the
\* set unchanged; Add(v) on a set without v returns no error and the set is
\* then the old set plus v; after any sequence of Add and AddMulti calls,
\* Has(v) is true exactly for the values whose Add succeeded.
C19_AddRejectsDuplicates ==
    /\ ret.op = "Add" =>
          LET v == ret.detail.val[1]
              before == ret.detail.before
          IN  /\ v \in before => ret.err # ErrNone /\ call.s = before
              /\ v \notin before => ret.err = ErrNone /\ call.s = before \cup {v}
    /\ \A v \in Elems : Has(call.s, v) <=> v \in call.succeeded

\* an Add of a value the set already held has returned its error, on a set
\* that holds some values and lacks others
C19_Witness ==
    /\ ret.op = "Add"
    /\ ret.detail.val[1] \in ret.detail.before
    /\ ret.err = ErrExists
    /\ call.s = ret.detail.before
    /\ call.s # {}
    /\ call.s # Elems

\* the arguments of the last AddMulti call at which its loop has to stop:
\* those already in the set or given earlier in the same call
Stops ==
    {i \in DOMAIN ret.detail.val :
        \/ ret.detail.val[i] \in ret.detail.before
        \/ \E j \in 1..(i - 1) : ret.detail.val[j] = ret.detail.val[i]}

FirstStop == CHOOSE i \in Stops : \A j \in Stops : i <= j

\* C20: AddMulti(v1..vn) adds the values in argument order and stops at the
\* first vi that is already in the set or repeats an earlier argument: it
\* returns an error, v1..v(i-1) stay in the set and v(i+1)..vn are not added;
\* it returns no error only when all n values were new and pairwise distinct.
C20_AddMultiStopsAtFirstDuplicate ==
    ret.op = "AddMulti" =>
        LET val == ret.detail.val
            before == ret.detail.before
        IN  IF Stops # {}
            THEN /\ ret.err # ErrNone
                 /\ call.s = before \cup {val[j] : j \in 1..(FirstStop - 1)}
            ELSE /\ ret.err = ErrNone
                 /\ call.s = before \cup Range(val)

\* AddMulti(a, a, b) on a set without a and b has returned an error, with a
\* added and b not
C20_Witness ==
    /\ ret.op = "AddMulti"
    /\ Len(ret.detail.val) = 3
    /\ ret.detail.val[1] = ret.detail.val[2]
    /\ ret.detail.val[1] \notin ret.detail.before
    /\ ret.detail.val[3] \notin ret.detail.before \cup {ret.detail.val[1]}
    /\ ret.err = ErrExists
    /\ call.s = ret.detail.before \cup {ret.detail.val[1]}
    /\ ret.detail.val[3] \notin call.s

-----------------------------------------------------------------------------
(* Claims about Compare *)

\* C21: Compare(A,B) returns equal = true exactly when A and B hold the same
\* elements; when |A| differs from |B| it returns (false, nil); when the sizes
\* are equal and the sets differ it returns false with a mismatch that is an
\* element of A not in B; when the sets are equal the mismatch is nil.
C21_CompareContract ==
    ret.op = "Compare" =>
        LET A == call.s
            B == call.s2
            out == ret.detail
        IN  /\ out.equal <=> A = B
            /\ Cardinality(A) # Cardinality(B) =>
                  ~out.equal /\ out.mismatch = {}
            /\ Cardinality(A) = Cardinality(B) /\ A # B =>
                  /\ ~out.equal
                  /\ \E item \in A : item \notin B /\ out.mismatch = {item}
            /\ out.equal => out.mismatch = {}

\* two different sets of the same size, of more than one element, were
\* compared and an element of the first was reported
C21_Witness ==
    /\ ret.op = "Compare"
    /\ Cardinality(call.s) = Cardinality(call.s2)
    /\ Cardinality(call.s) >= 2
    /\ call.s # call.s2
    /\ ~ret.detail.equal
    /\ ret.detail.mismatch # {}
    /\ ret.detail.mismatch \subseteq call.s \ call.s2

-----------------------------------------------------------------------------
(* Claims about the storage layout and the frame of Rename, under Spec *)

\* Data holds one array per column name, all of one length
ColumnMajor(t) ==
    /\ Len(t.Data) = Len(t.Columns)
    /\ \A i, j \in DOMAIN t.Data : Len(t.Data[i]) = Len(t.Data[j])

\* C22: every table returned by the constructor or by Merge stores its cells
\* as Data[column index][row index]: len(Data) = len(Columns) and all entries
\* of Data have one length; hence a constructed table can be passed to Merge,
\* which reads the join key of a row from the cells of the named column and
\* so does not fail on a join column both tables have.
C22_OneStorageLayout ==
    /\ \A s \in Slots : ~df[s].isNil => ColumnMajor(df[s])
    /\ ret.op = "Merge" => ret.err # Panic

-----------------------------------------------------------------------------
(* Claims about the outer joins *)

\* the output rows drawn from left row i (side 1) or right row j (side 2)
RowsFrom(side, i) == {k \in DOMAIN m.prov : m.prov[k][side] = i}

Filler(n) == [x \in 1..n |-> Null]

RightFields(j) == WithoutPosition(R.Data[j], ColIdx(R.Columns, m.on))

\* C23: in a left and in a right join every unmatched driving row is emitted
\* exactly once with the absent side null-filled: a left join fills (right
\* column count - 1) right-side fields, a right join fills all (left column
\* count) left-side fields; a matched row is the left row followed by the
\* right row's other fields, without filler; and every output row has width
\* left column count + right column count - 1.
C23_OuterJoinNullFill ==
    (MergeOk /\ m.how \in {LeftMerge, RightMerge}) =>
        /\ \A k \in DOMAIN Out.Data :
              /\ Len(Out.Data[k]) = Len(L.Columns) + Len(R.Columns) - 1
              /\ (m.prov[k][1] # 0 /\ m.prov[k][2] # 0) =>
                    /\ LKey(m.prov[k][1]) = RKey(m.prov[k][2])
                    /\ Out.Data[k] = L.Data[m.prov[k][1]] \o RightFields(m.prov[k][2])
        /\ m.how = LeftMerge =>
              \A i \in UnmatchedLeft :
                  /\ Cardinality(RowsFrom(1, i)) = 1
                  /\ \A k \in RowsFrom(1, i) :
                        Out.Data[k] = L.Data[i] \o Filler(Len(R.Columns) - 1)
        /\ m.how = RightMerge =>
              \A j \in UnmatchedRight :
                  /\ Cardinality(RowsFrom(2, j)) = 1
                  /\ \A k \in RowsFrom(2, j) :
                        Out.Data[k] = Filler(Len(L.Columns)) \o RightFields(j)

\* what Merge returns for the same tables and join column as a left and as an
\* inner join
LeftOutput == performLeftMerge(L, R, m.df1ColIdx, m.df2ColIdx, m.df2Map)
InnerOutput == performInnerMerge(L, R, m.df1ColIdx, m.df2ColIdx, m.df2Map)

\* the right rows of the output rows after the left-join prefix, in order
SuffixRows ==
    [k \in 1..(Len(Out.Data) - Len(LeftOutput)) |-> m.prov[Len(LeftOutput) + k]]

\* C24: the full-join output is the left-join output of the same inputs as an
\* exact prefix, followed by one row for each right row whose join key occurs
\* in no left row, in the right table's order; a right row whose key occurs in
\* the left table is not in the suffix, and the inner-join output is a
\* subsequence of the prefix.
C24_FullIsLeftThenRightOnly ==
    (MergeOk /\ m.how = FullMerge) =>
        /\ Len(Out.Data) >= Len(LeftOutput)
        /\ \A k \in DOMAIN LeftOutput :
              /\ Out.Data[k] = LeftOutput[k].row
              /\ m.prov[k] = <<LeftOutput[k].l, LeftOutput[k].r>>
        /\ \A k \in DOMAIN SuffixRows : SuffixRows[k][1] = 0
        /\ {SuffixRows[k][2] : k \in DOMAIN SuffixRows} = AbsentFromLeft
        /\ \A k1, k2 \in DOMAIN SuffixRows :
              k1 < k2 => SuffixRows[k1][2] < SuffixRows[k2][2]
        /\ \A k \in DOMAIN SuffixRows :
              RKey(SuffixRows[k][2]) \notin {LKey(i) : i \in DOMAIN L.Data}
        /\ SelectSeq(LeftOutput, LAMBDA x : x.r # 0) = InnerOutput

\* a full join with matched rows, a left row without a match and a right row
\* whose key no left row has
C24_Witness ==
    /\ MergeOk
    /\ m.how = FullMerge
    /\ Len(InnerOutput) >= 1
    /\ Len(LeftOutput) > Len(InnerOutput)
    /\ Len(Out.Data) > Len(LeftOutput)
    /\ AbsentFromLeft # {}
    /\ \E j \in DOMAIN R.Data : j \notin AbsentFromLeft

-----------------------------------------------------------------------------
(* Claims about the workers of Read_csv, under SpecCsv *)

\* the rows [start, end) of worker w, as Go indices
RowsOf(w) ==
    {j \in 0..(Len(csv.records) - 1) :
        /\ csv.workers[w].start <= j
        /\ j < ChunkEnd(csv.workers[w].start, csv.chunkSize, Len(csv.records))}

\* the launching loop is over: every worker there will be has been launched
AllLaunched == csv.pc \in {"wait", "construct", "done"} /\ csv.data # <<>>

\* C25: the row ranges of the workers are contiguous and pairwise disjoint, a
\* worker works only on rows of its own range, and once all are launched the
\* ranges cover every body row exactly once; there are numCPU workers, each
\* with floor(len(records)/numCPU) rows but the last, which also has the
\* remainder.
C25_ChunksPartitionRows ==
    (Allocated /\ csv.data # <<>>) =>
        /\ \A w, v \in DOMAIN csv.workers : w # v => RowsOf(w) \cap RowsOf(v) = {}
        /\ \A w \in DOMAIN csv.workers :
              /\ w > 1 => csv.workers[w].start =
                              ChunkEnd(csv.workers[w - 1].start, csv.chunkSize,
                                       Len(csv.records))
              /\ csv.workers[w].j \in RowsOf(w) \cup
                    {ChunkEnd(csv.workers[w].start, csv.chunkSize, Len(csv.records))}
        /\ AllLaunched =>
              /\ UNION {RowsOf(w) : w \in DOMAIN csv.workers}
                     = 0..(Len(csv.records) - 1)
              /\ Len(csv.workers) = csv.numCPU
              /\ \A w \in DOMAIN csv.workers :
                    Cardinality(RowsOf(w)) =
                        IF w < csv.numCPU THEN Len(csv.records) \div csv.numCPU
                        ELSE Len(csv.records)
                                 - (csv.numCPU - 1) * (Len(csv.records) \div csv.numCPU)

\* the workers that have not returned
RunningWorkers == {w \in DOMAIN csv.workers : csv.workers[w].pc = "run"}

\* the constructor has been called, or has returned
ConstructorStarted == csv.pc \in {"construct", "done"} /\ csv.data # <<>>

\* C26: ingestion is a barrier: the constructor is invoked only after every
\* launched worker has finished, so no worker writes a cell once the
\* constructor reads the column arrays, and every launched worker is counted
\* by the WaitGroup from its launch until it finishes.
C26_BarrierBeforeConstructor ==
    /\ ConstructorStarted => RunningWorkers = {} /\ csv.wg = 0
    /\ csv.pc # "idle" => csv.wg = Cardinality(RunningWorkers)

\* the constructor returned a table after two workers had each parsed a row
C26_Witness ==
    /\ ConstructorStarted
    /\ csv.pc = "done"
    /\ ret.err = ErrNone
    /\ Len(csv.workers) = 2
    /\ Len(csv.records) = 2
    /\ \A w \in DOMAIN csv.workers : csv.workers[w].pc = "done"
    /\ ~df["res"].isNil

\* a step of the launching loop: one more worker
Launches == csv.pc = "spawn" /\ Len(csv'.workers) > Len(csv.workers)

\* C27: ingestion terminates for every non-empty body and every processor
\* count >= 1, also one larger than the number of body rows: every iteration
\* of the launching loop moves the loop index forward, so the loop launches at
\* most len(records) workers and ends, the workers finish and the call
\* returns.
C27_LaunchLoopAdvances ==
    [][Launches => csv'.i > csv.i /\ Len(csv'.workers) <= Len(csv.records)]_vars

-----------------------------------------------------------------------------
(* Merge, statement by statement, for a call df1.Merge(df2, on, how) that    *)
(* runs while a Rename call runs on df1.  m.stage is the last statement      *)
(* group the call has passed; ret.op = "Merge" once it has returned.         *)

\* Mutant of MergeProceeds: Merge's statements wait for df1's mutex.
MergeWaits(mu) == mu = 0

\* Merge has no df.Lock(): its statements run whoever holds the mutex
MergeProceeds(mu) == TRUE

MergeInFlight == ret.op = "" /\ m.stage \in {"nil check", "find column", "switch"}

\* lines 203-206: the call and its nil check
MergeEnter ==
    /\ ret.op = ""
    /\ m.stage = "idle"
    /\ \E on \in OnCols, how \in Hows :
          m' = [MIdle EXCEPT !.on = on, !.how = how, !.stage = "nil check"]
    /\ ret' = IF df["df1"].isNil \/ df["df2"].isNil
              THEN Returned("Merge", ErrNilDF, <<>>) ELSE ret
    /\ UNCHANGED <<call, df, rn, csv>>

\* lines 208-225: the two loops that look for the join column
MergeFindColumn ==
    /\ ret.op = ""
    /\ m.stage = "nil check"
    /\ MergeProceeds(rn.mu)
    /\ LET c1 == ColIdx(df["df1"].Columns, m.on)
           c2 == ColIdx(df["df2"].Columns, m.on)
       IN  /\ m' = [m EXCEPT !.df1ColIdx = c1, !.df2ColIdx = c2,
                             !.stage = "find column"]
           /\ ret' = IF c1 = NotFound \/ c2 = NotFound
                     THEN Returned("Merge", ErrNoColumn, <<>>) ELSE ret
    /\ UNCHANGED <<call, df, rn, csv>>

\* lines 227-241: df2Map, then resultColumns copied from the column names
MergeCopyColumns ==
    /\ ret.op = ""
    /\ m.stage = "find column"
    /\ MergeProceeds(rn.mu)
    /\ IF KeyPanics(df["df2"].Data, m.df2ColIdx)
       THEN /\ m' = [m EXCEPT !.stage = "index"]
            /\ ret' = Returned("Merge", Panic, <<>>)
       ELSE /\ m' = [m EXCEPT
                        !.df2Map = BuildMap(df["df2"].Data, m.df2ColIdx),
                        !.resultColumns = ResultColumns(df["df1"].Columns,
                                                        df["df2"].Columns, m.on),
                        !.stage = "switch"]
            /\ ret' = ret
    /\ UNCHANGED <<call, df, rn, csv>>

\* lines 243-261: the switch on how and the returned table
MergeReturn ==
    /\ ret.op = ""
    /\ m.stage = "switch"
    /\ MergeProceeds(rn.mu)
    /\ IF m.how \notin MergeKinds
       THEN /\ ret' = Returned("Merge", ErrMergeType, <<>>)
            /\ UNCHANGED <<m, df>>
       ELSE IF KeyPanics(df["df1"].Data, m.df1ColIdx)
       THEN /\ ret' = Returned("Merge", Panic, <<>>)
            /\ UNCHANGED <<m, df>>
       ELSE LET rows == performMerge(m.how, df["df1"], df["df2"],
                                     m.df1ColIdx, m.df2ColIdx, m.df2Map)
                n == Len(rows)
            IN  /\ df' = [df EXCEPT !["res"] =
                             MkDF(m.resultColumns,
                                  [k \in 1..n |-> rows[k].row],
                                  [k \in 1..n |-> FreshStore(rows[k].l, rows[k].r, k)])]
                /\ m' = [m EXCEPT !.stage = "return",
                                  !.prov = [k \in 1..n |-> <<rows[k].l, rows[k].r>>]]
                /\ ret' = Returned("Merge", ErrNone, <<>>)
    /\ UNCHANGED <<call, rn, csv>>

MergeStep == MergeFindColumn \/ MergeCopyColumns \/ MergeReturn

-----------------------------------------------------------------------------
(* SpecRace: one goroutine renames columns of df1 while another merges df1   *)
(* with df2                                                                  *)

Renamer == 1

InitRace ==
    /\ \E cols \in Schemas :
          df = [s \in Slots |->
                   IF s = "df1" THEN Literal("df1", <<"ID", "Name">>, <<1>>)
                   ELSE IF s = "df2" THEN Literal("df2", cols, <<1>>)
                   ELSE NilDF]
    /\ m = MIdle
    /\ ret = Returned("", ErrNone, <<>>)
    /\ csv = CsvIdle
    /\ call = NoCall
    /\ \E columns \in RaceMaps :
          rn = [mu |-> 0,
                pc |-> [p \in Procs |-> IF p = Renamer THEN "call" ELSE "done"],
                columns |-> [p \in Procs |-> columns],
                err |-> [p \in Procs |-> ErrNone],
                todo |-> [p \in Procs |-> {}],
                start |-> <<"ID", "Name">>]

NextRace ==
    \/ RenameEnter(Renamer)
    \/ RenameLock(Renamer)
    \/ RenameCheck(Renamer)
    \/ RenameWrite(Renamer)
    \/ RenameUnlock(Renamer)
    \/ MergeEnter
    \/ MergeFindColumn
    \/ MergeCopyColumns
    \/ MergeReturn

SpecRace == InitRace /\ [][NextRace]_vars

\* what Merge returns, error and column names, on df1 with the given names
MergeOutcome(cols) ==
    LET run == MergeRun([df["df1"] EXCEPT !.Columns = cols], df["df2"], m.on, m.how)
    IN  [err |-> run.err, Columns |-> run.out.Columns]

\* C28: Merge reads the column names of its inputs without taking the table
\* lock: while a Merge call is in flight its next statement can run whether
\* or not a Rename holds df1's mutex, and no statement of Merge changes the
\* mutex.  (The witness is the interleaving the claim speaks of.)
C28_MergeIgnoresTheLock ==
    MergeInFlight => ENABLED MergeStep

\* Merge found the join column under the old names and copied names the
\* Rename had written: it returned column names that a Merge before the
\* Rename would not return, nor a Merge after it
C28_Witness ==
    /\ ret.op = "Merge"
    /\ ret.err = ErrNone
    /\ rn.pc[Renamer] = "done"
    /\ rn.err[Renamer] = ErrNone
    /\ m.df1ColIdx = ColIdx(rn.start, m.on)
    /\ [err |-> ErrNone, Columns |-> df["res"].Columns]
           \notin {MergeOutcome(rn.start), MergeOutcome(df["df1"].Columns)}

-----------------------------------------------------------------------------
(* Claims about Rename's validation, under SpecRenameCall *)

\* the keys of the rename map that are no column of the table
UnknownKeys == DOMAIN call.columns \ ToSet(call.before.Columns)

\* C29: whenever Rename rejects a map because a key is no column of the
\* table, the rejection is the generic "columns not present" error of the
\* branch for a nil mismatch: keys is compared with its own intersection with
\* the column set, a subset of keys, so Compare fails on the sizes and the
\* branch that names the unknown key is reached for no table and no map.
C29_SpecificKeyBranchUnreachable ==
    ret.op = "Rename" =>
        /\ ret.err # ErrColumnAbsent
        /\ UnknownKeys # {} => ret.err = ErrColumnsAbsent
        /\ ret.err = ErrColumnsAbsent =>
              /\ UnknownKeys # {}
              /\ ret.detail \subseteq DOMAIN call.columns
              /\ Cardinality(ret.detail) < Cardinality(DOMAIN call.columns)

\* a map with as many keys as the table has columns, one of them unknown,
\* was rejected with the generic error
C29_Witness ==
    /\ ret.op = "Rename"
    /\ ret.err = ErrColumnsAbsent
    /\ "Zip" \in DOMAIN call.columns
    /\ Cardinality(DOMAIN call.columns) = Cardinality(ToSet(call.before.Columns))
    /\ Cardinality(DOMAIN call.columns) = 2
    /\ df["df1"].Columns = call.before.Columns

-----------------------------------------------------------------------------
(* SpecAlias: the caller keeps the slice of column names it hands to the     *)
(* constructor.  call.columns is that slice; call.holders are the tables     *)
(* whose Columns field is that very slice (part_000:135-136, Columns:        *)
(* columns), so that a write to an element of one is a write to all.         *)

AnyType == Types([c \in ColNames |-> "any"])

InitAlias ==
    /\ df = [s \in Slots |-> NilDF]
    /\ m = MIdle
    /\ ret = Returned("", ErrNone, <<>>)
    /\ rn = RnIdle
    /\ csv = CsvIdle
    /\ \E columns \in CtorColumns :
          call = [op |-> "Alias", columns |-> columns, holders |-> {}]

\* df[s], err = GoPandas{}.DataFrame(columns, data, types) on the caller's slice
AliasBuild ==
    /\ Running
    /\ \E s \in {"df1", "df2"}, n \in 0..MaxCtorRows :
          /\ df[s].isNil
          /\ LET run == Construct(s, call.columns, CtorData(call.columns, n), AnyType)
             IN  /\ df' = [df EXCEPT ![s] = run.out]
                 /\ ret' = Returned("DataFrame", run.err, run.detail)
                 /\ call' = [call EXCEPT !.holders =
                                IF run.err = ErrNone THEN @ \cup {s} ELSE @]
    /\ UNCHANGED <<m, rn, csv>>

\* the array that df[s].Columns points into, after Rename has written cols
\* into it: every holder of the caller's slice sees the new names
WrittenThrough(s, t, cols) ==
    IF t = s \/ (s \in call.holders /\ t \in call.holders)
    THEN [df[t] EXCEPT !.Columns = cols]
    ELSE df[t]

\* err := df[s].Rename(columns), lines 510-516 writing df.Columns[idx] in
\* place; the detail is the table the call was made on
AliasRename ==
    /\ Running
    /\ \E s \in Slots, columns \in RenameMaps :
       \E run \in RenameRun(df[s], columns) :
          /\ df' = [t \in Slots |-> WrittenThrough(s, t, run.out.Columns)]
          /\ call' = [call EXCEPT !.columns =
                         IF s \in call.holders THEN run.out.Columns ELSE @]
          /\ ret' = Returned("Rename", run.err, s)
    /\ UNCHANGED <<m, rn, csv>>

\* res, err := df1.Merge(df2, on, how): resultColumns is a fresh slice
AliasMerge ==
    /\ Running
    /\ \E on \in OnCols, how \in Hows : Merge("df1", "df2", on, how)

NextAlias == AliasBuild \/ AliasRename \/ AliasMerge

SpecAlias == InitAlias /\ [][NextAlias]_vars

\* C30: Rename on a table changes the column names of that table only: the
\* slice of column names the caller passed to the constructor and the column
\* names of every other table, Merge results included, are as they were.
C30_RenameChangesOneTable ==
    [][ret'.op = "Rename" =>
          /\ call'.columns = call.columns
          /\ \A t \in Slots \ {ret'.detail} : df'[t].Columns = df[t].Columns]_vars

=============================================================================
